---- MODULE Spec2Model ----
(***************************************************************************)
(* State-machine model of the libp2p WebRTC transport core:                *)
(*   - WebRTCTransport.Dial / dial   (p2p/transport/webrtc/transport.go)   *)
(*   - stream.Read / stream.CloseRead (p2p/transport/webrtc stream reader) *)
(*   - New and its options, generateNoisePrologue, noiseHandshake          *)
(*   - upgrader.Upgrade as driven by p2p/net/upgrader/upgrader_test.go     *)
(*   - Swarm.InterfaceListenAddresses and its cache of interface addresses *)
(* Each part has its own specification (SpecDial, SpecStream, SpecRead,    *)
(* SpecNew, SpecHandshake, SpecUpgrade, SpecSwarm) over the same set of    *)
(* variables; the variables of the other parts stay unchanged.             *)
(***************************************************************************)
EXTENDS Integers, Sequences, FiniteSets, TLC

----------------------------------------------------------------------------
(* Small input sets and bounds *)

\* peer identities: the expected peer and the identity the remote proves
Peers == {"PA", "PX"}

\* multihash codes a certhash may carry; 0xFF resolves to no SDP hash
HashCodes == {"sha2-256", "sha2-512", "0xFF"}

\* DTLS certificates of the two transports of a handshake
Certs == {"certA", "certB", "certC"}

\* the two ends of a handshake
Sides == {"dialer", "listener"}

\* goroutines that call Swarm.InterfaceListenAddresses
IfaceCallers == {"g1", "g2"}

\* the clock runs from 1 to MaxTime
MaxTime == 4

\* goroutines calling stream.Read concurrently
Readers == {"r1", "r2"}

\* number of inbound messages the remote writes on the data channel
MaxMsgs == 2

\* largest payload of one inbound message, in bytes
MaxData == 2

\* payload sizes the remote uses: a message without data, or a full one
DataLens == {0, MaxData}

\* largest caller buffer handed to Read
MaxBuf == 2

NoOne == "none"

\* number of options handed to New
MaxOpts == 2

\* durations (in seconds) an IceTimeouts option may carry: negative, zero,
\* and values below, between and above the defaults
Durations == {-1, 0, 1, 3, 6, 30}

----------------------------------------------------------------------------
VARIABLES
    \* ---- WebRTCTransport.Dial ----
    dialPc,        \* position of the Dial call
    p,             \* expected peer id (argument p)
    remoteId,      \* peer id behind the remote's Noise static key
    certhash,      \* multihash code of the certhash in remoteMultiaddr
    ctxDone,       \* the dial context has been cancelled
    scopeOpened,   \* rcmgr.OpenConnection returned a scope
    scopePeer,     \* peer given to scope.SetPeer, "nil" before
    scopeDone,     \* number of scope.Done() calls
    pc,            \* the PeerConnection: "nil", "open", "closed"
    conn,          \* the connection object: "nil", "open", "closed"
    connKey,       \* conn.remoteKey: "nil" or the peer behind the key
    secKey,        \* secConn.RemotePublicKey(): "nil" or the peer behind it
    tConn,         \* named result tConn of dial: "nil" or "conn"
    err,           \* named result err of dial: "nil" or an error
    retConn,       \* connection returned by Dial: "nil" or "conn"
    retErr,        \* error returned by Dial: "nil" or an error
    events,        \* history: stages of dial that completed, in order
    parked,        \* Dial is blocked in the wait of its current stage
    cancelAt,      \* history: the wait Dial was blocked in when the context
                   \* was cancelled ("running" when it was not blocked)
    \* ---- stream ----
    readerOnce,    \* holder of the capacity-1 reader token, or NoOne
    mx,            \* holder of the stream mutex, or NoOne
    rpc,           \* position of each Read call
    rbuf,          \* len(b) of each Read call
    rmsg,          \* what ReadMsg gave each Read call
    lastRet,       \* (n, err) a Read returned in the step just taken
    receiveState,  \* "receiving", "data_read", "reset"
    sendState,     \* "sending", "closed", "reset"
    closeErr,      \* sticky close error, "nil" when unset
    nextMessage,   \* buffered inbound message, or Nil
    inbound,       \* messages on the data channel not yet read
    chanEOF,       \* the remote closed the data channel
    written,       \* flags handed to writeMsgOnWriter, in order
    ctrlOnce,      \* controlMessageReaderOnce has fired
    \* history of the stream
    arrived,       \* summary of what the remote wrote on the channel so far
    delivered,     \* bytes returned by Reads so far, in order
    hist,          \* sticky history flags: a Read returned Reset / EOF,
                   \* a Read returned after that, a channel EOF became Reset
    \* ---- New ----
    newPc,         \* position of the New call: "idle", "opts", "returned"
    peerConnectionTimeouts,  \* transport.peerConnectionTimeouts
    maxInFlightConnections,  \* transport.maxInFlightConnections
    nOpts,         \* options applied so far
    lastIn,        \* history: the IceTimeouts the last option was built with
    newRet,        \* what New returned: "none", "transport", "error"
    \* ---- noiseHandshake, on both ends of one handshake ----
    hsIn,          \* the certificates of the two ends and the certhash code
    hsPos,         \* position of noiseHandshake on each side
    prologue,      \* the Noise prologue each side computed
    peerIDCheck,   \* Noise's own peer-id check on each side: "on", "disabled"
    role,          \* the Noise session each side runs
    \* ---- upgrader.Upgrade, as the upgrader tests drive it ----
    upIn,          \* the set-up of one upgrade: who calls it, the peers,
                   \* the gater, the muxers of both ends, the scope
    upPc,          \* position of the Upgrade call
    secPeer,       \* sconn.RemotePeer() once security is set up
    scopeHasPeer,  \* the connection scope has a peer scope
    scopeCalls,    \* history: the calls the connection scope has seen
    upConn,        \* the upgraded connection: "nil", "open", "closed"
    upErr,         \* the error Upgrade returned, "nil" when none
    \* ---- Swarm.InterfaceListenAddresses ----
    listenersM,    \* s.listeners.m: the addresses of the listeners
    ifaceListenAddres,  \* s.listeners.ifaceListenAddres: the cached list
    cacheEOL,      \* s.listeners.cacheEOL
    now,           \* the clock, time.Now()
    ifaces,        \* the local interfaces as the resolver finds them
    listenersLock, \* holder of the write lock of s.listeners, or NoOne
    ipc,           \* position of each InterfaceListenAddresses call
    iloc,          \* the locals of each call: ifaceListenAddres and isEOL
    iret           \* what each call returned: error, addresses, and whether
                   \* the slice shares its array with the cached one

dialVars == <<dialPc, p, remoteId, certhash, ctxDone, scopeOpened, scopePeer,
              scopeDone, pc, conn, connKey, secKey, tConn, err, retConn,
              retErr, events, parked, cancelAt>>

streamVars == <<readerOnce, mx, rpc, rbuf, rmsg, lastRet, receiveState,
                sendState, closeErr, nextMessage, inbound, chanEOF, written,
                ctrlOnce, arrived, delivered, hist>>

newVars == <<newPc, peerConnectionTimeouts, maxInFlightConnections, nOpts,
             lastIn, newRet>>

hsVars == <<hsIn, hsPos, prologue, peerIDCheck, role>>

upVars == <<upIn, upPc, secPeer, scopeHasPeer, scopeCalls, upConn, upErr>>

swVars == <<listenersM, ifaceListenAddres, cacheEOL, now, ifaces,
            listenersLock, ipc, iloc, iret>>

vars == <<dialVars, streamVars, newVars, hsVars, upVars, swVars>>

\* what an operation of Dial leaves alone, what one of the stream does,
\* what one of New does, and what one of the Noise handshake does
notDialVars == <<streamVars, newVars, hsVars, upVars, swVars>>

notStreamVars == <<dialVars, newVars, hsVars, upVars, swVars>>

notNewVars == <<dialVars, streamVars, hsVars, upVars, swVars>>

notHsVars == <<dialVars, streamVars, newVars, upVars, swVars>>

notUpVars == <<dialVars, streamVars, newVars, hsVars, swVars>>

notSwVars == <<dialVars, streamVars, newVars, hsVars, upVars>>

----------------------------------------------------------------------------
(*                         WebRTCTransport.Dial                            *)

\* internal.GetSupportedSDPHash: the multihash codes with an SDP hash name
SupportedHashes == {"sha2-256", "sha2-512"}

GetSupportedSDPHash(code) == code \in SupportedHashes

\* a dial that sets the remote description first and starts Noise before
\* it waits for the PeerConnection
PlainStagesReordered == <<"DecodeRemoteFingerprint", "GetSupportedSDPHash",
                          "DialArgs", "ResolveUDPAddr", "NewPeerConnection",
                          "CreateDataChannel", "CreateOffer",
                          "RenderServerSdp", "SetRemoteDescription",
                          "SetLocalDescription", "GetDetachedChannel",
                          "GetSelectedCandidatePair", "FromNetAddr",
                          "newConnection", "noiseHandshake", "AwaitOpen",
                          "setRemotePublicKey">>

\* the fallible calls of dial that touch nothing but err, in source order
PlainStages == <<"DecodeRemoteFingerprint", "GetSupportedSDPHash",
                 "DialArgs", "ResolveUDPAddr", "NewPeerConnection",
                 "CreateDataChannel", "CreateOffer", "SetLocalDescription",
                 "RenderServerSdp", "SetRemoteDescription", "AwaitOpen",
                 "GetDetachedChannel", "GetSelectedCandidatePair",
                 "FromNetAddr", "newConnection", "noiseHandshake",
                 "setRemotePublicKey">>

StageIndex(s) == CHOOSE i \in 1..Len(PlainStages) : PlainStages[i] = s

NextStage(s) == PlainStages[StageIndex(s) + 1]

\* stages that are a plain library call: succeed, or fail with an error
SimpleStages == {"DecodeRemoteFingerprint", "DialArgs", "ResolveUDPAddr",
                 "CreateDataChannel", "CreateOffer", "SetLocalDescription",
                 "RenderServerSdp", "SetRemoteDescription",
                 "GetSelectedCandidatePair", "FromNetAddr"}

\* stages that block until a result arrives or the dial context is done
BlockingStages == {"AwaitOpen", "GetDetachedChannel", "noiseHandshake"}

\* the errors of a wait that ended because the dial context was done
CtxErrors == {"peerconnection opening timed out", "context canceled",
              "noise: context canceled"}

DialInit ==
    /\ dialPc = "idle"
    /\ p = "nil"
    /\ remoteId = "nil"
    /\ certhash = "nil"
    /\ ctxDone = FALSE
    /\ scopeOpened = FALSE
    /\ scopePeer = "nil"
    /\ scopeDone = 0
    /\ pc = "nil"
    /\ conn = "nil"
    /\ connKey = "nil"
    /\ secKey = "nil"
    /\ tConn = "nil"
    /\ err = "nil"
    /\ retConn = "nil"
    /\ retErr = "nil"
    /\ events = <<>>
    /\ parked = FALSE
    /\ cancelAt = "none"

\* the caller invokes Dial(ctx, remoteMultiaddr, p)
DialCall ==
    /\ UNCHANGED notDialVars
    /\ UNCHANGED <<parked, cancelAt>>
    /\ dialPc = "idle"
    /\ \E pp \in Peers, rid \in Peers, code \in HashCodes :
          /\ p' = pp
          /\ remoteId' = rid
          /\ certhash' = code
    /\ dialPc' = "OpenConnection"
    /\ UNCHANGED <<ctxDone, scopeOpened, scopePeer, scopeDone, pc, conn,
                   connKey, secKey, tConn, err, retConn, retErr, events>>

\* the dial context is cancelled (by the caller or by its deadline)
CtxCancel ==
    /\ UNCHANGED notDialVars
    /\ dialPc \notin {"idle", "returned"}
    /\ ~ctxDone
    /\ ctxDone' = TRUE
    /\ cancelAt' = IF parked THEN dialPc ELSE "running"
    /\ UNCHANGED parked
    /\ UNCHANGED <<dialPc, p, remoteId, certhash, scopeOpened, scopePeer,
                   scopeDone, pc, conn, connKey, secKey, tConn, err, retConn,
                   retErr, events>>

\* scope, err := t.rcmgr.OpenConnection(...); if err != nil return nil, err
OpenConnection ==
    /\ UNCHANGED notDialVars
    /\ UNCHANGED <<parked, cancelAt>>
    /\ dialPc = "OpenConnection"
    /\ \/ /\ scopeOpened' = TRUE
          /\ dialPc' = "SetPeer"
          /\ UNCHANGED <<retConn, retErr>>
       \/ /\ retConn' = "nil"
          /\ retErr' = "OpenConnection"
          /\ dialPc' = "returned"
          /\ UNCHANGED scopeOpened
    /\ UNCHANGED <<p, remoteId, certhash, ctxDone, scopePeer, scopeDone, pc,
                   conn, connKey, secKey, tConn, err, events>>

\* err = scope.SetPeer(p); if err != nil { scope.Done(); return nil, err }
SetPeer ==
    /\ UNCHANGED notDialVars
    /\ UNCHANGED <<parked, cancelAt>>
    /\ dialPc = "SetPeer"
    /\ \/ /\ scopePeer' = p
          /\ dialPc' = PlainStages[1]
          /\ UNCHANGED <<scopeDone, retConn, retErr>>
       \/ /\ scopeDone' = scopeDone + 1
          /\ retConn' = "nil"
          /\ retErr' = "SetPeer"
          /\ dialPc' = "returned"
          /\ UNCHANGED scopePeer
    /\ UNCHANGED <<p, remoteId, certhash, ctxDone, scopeOpened, pc, conn,
                   connKey, secKey, tConn, err, events>>

\* a stage of dial fails: return nil, fmt.Errorf(...)
FailStage(stage, e) ==
    /\ tConn' = "nil"
    /\ err' = e
    /\ dialPc' = "deferred"
    /\ UNCHANGED events

\* a stage of dial succeeds and dial goes on to the next call
PassStage(stage) ==
    /\ dialPc' = NextStage(stage)
    /\ events' = Append(events, stage)
    /\ UNCHANGED <<tConn, err>>

\* DecodeRemoteFingerprint, DialArgs, ResolveUDPAddr, CreateDataChannel,
\* CreateOffer, SetLocalDescription, RenderServerSdp, SetRemoteDescription,
\* GetSelectedCandidatePair, FromNetAddr
DialSimpleStage ==
    /\ UNCHANGED notDialVars
    /\ UNCHANGED <<parked, cancelAt>>
    /\ dialPc \in SimpleStages
    /\ \/ PassStage(dialPc)
       \/ FailStage(dialPc, dialPc)
    /\ UNCHANGED <<p, remoteId, certhash, ctxDone, scopeOpened, scopePeer,
                   scopeDone, pc, conn, connKey, secKey, retConn, retErr>>

\* a hash lookup whose result is ignored: dial goes on whatever the code
DialSupportedHashIgnored ==
    /\ UNCHANGED notDialVars
    /\ UNCHANGED <<parked, cancelAt>>
    /\ dialPc = "GetSupportedSDPHash"
    /\ PassStage(dialPc)
    /\ UNCHANGED <<p, remoteId, certhash, ctxDone, scopeOpened, scopePeer,
                   scopeDone, pc, conn, connKey, secKey, retConn, retErr>>

\* remoteHashFunction, ok := internal.GetSupportedSDPHash(remoteMultihash.Code)
\* if !ok { return nil, fmt.Errorf("unsupported hash function: %w", nil) }
DialSupportedHash ==
    /\ UNCHANGED notDialVars
    /\ UNCHANGED <<parked, cancelAt>>
    /\ dialPc = "GetSupportedSDPHash"
    /\ IF GetSupportedSDPHash(certhash)
          THEN PassStage(dialPc)
          ELSE FailStage(dialPc, "unsupported hash function")
    /\ UNCHANGED <<p, remoteId, certhash, ctxDone, scopeOpened, scopePeer,
                   scopeDone, pc, conn, connKey, secKey, retConn, retErr>>

\* pc, err = api.NewPeerConnection(t.webrtcConfig)
DialNewPeerConnection ==
    /\ UNCHANGED notDialVars
    /\ UNCHANGED <<parked, cancelAt>>
    /\ dialPc = "NewPeerConnection"
    /\ \/ /\ pc' = "open"
          /\ PassStage(dialPc)
       \/ /\ FailStage(dialPc, "instantiate peerconnection")
          /\ UNCHANGED pc
    /\ UNCHANGED <<p, remoteId, certhash, ctxDone, scopeOpened, scopePeer,
                   scopeDone, conn, connKey, secKey, retConn, retErr>>

\* a blocking stage finds neither its result nor a done context and blocks
DialPark ==
    /\ UNCHANGED notDialVars
    /\ dialPc \in BlockingStages
    /\ ~parked
    /\ ~ctxDone
    /\ parked' = TRUE
    /\ UNCHANGED <<dialPc, p, remoteId, certhash, ctxDone, scopeOpened,
                   scopePeer, scopeDone, pc, conn, connKey, secKey, tConn,
                   err, retConn, retErr, events, cancelAt>>

\* the result a blocked wait was woken by: a wait that is blocked when the
\* context is cancelled is woken by the context, whatever arrives later; a
\* wait that is not blocked picks any case that is ready
ResultCase == ~(parked /\ ctxDone)

\* a wait that keeps waiting after the context is done
CtxCaseNever == FALSE

\* case <-ctx.Done()
CtxCase == ctxDone

\* select { case err := <-errC: ...; case <-ctx.Done(): ... }
DialAwaitOpen ==
    /\ UNCHANGED notDialVars
    /\ dialPc = "AwaitOpen"
    /\ \/ /\ ResultCase
          /\ PassStage(dialPc)
       \/ /\ ResultCase
          /\ FailStage(dialPc, "peerconnection failed")
       \/ /\ CtxCase
          /\ FailStage(dialPc, "peerconnection opening timed out")
    /\ parked' = FALSE
    /\ UNCHANGED cancelAt
    /\ UNCHANGED <<p, remoteId, certhash, ctxDone, scopeOpened, scopePeer,
                   scopeDone, pc, conn, connKey, secKey, retConn, retErr>>

\* detached, err := internal.GetDetachedChannel(ctx, rawHandshakeChannel)
\* if err != nil { return nil, err }
DialGetDetachedChannel ==
    /\ UNCHANGED notDialVars
    /\ dialPc = "GetDetachedChannel"
    /\ \/ /\ ResultCase
          /\ PassStage(dialPc)
       \/ /\ ResultCase
          /\ FailStage(dialPc, "GetDetachedChannel")
       \/ /\ CtxCase
          /\ FailStage(dialPc, "context canceled")
    /\ parked' = FALSE
    /\ UNCHANGED cancelAt
    /\ UNCHANGED <<p, remoteId, certhash, ctxDone, scopeOpened, scopePeer,
                   scopeDone, pc, conn, connKey, secKey, retConn, retErr>>

\* conn, err := newConnection(network.DirOutbound, pc, t, scope, ..., p, nil, ...)
DialNewConnection ==
    /\ UNCHANGED notDialVars
    /\ UNCHANGED <<parked, cancelAt>>
    /\ dialPc = "newConnection"
    /\ \/ /\ conn' = "open"
          /\ PassStage(dialPc)
       \/ /\ FailStage(dialPc, "newConnection")
          /\ UNCHANGED conn
    /\ UNCHANGED <<p, remoteId, certhash, ctxDone, scopeOpened, scopePeer,
                   scopeDone, pc, connKey, secKey, retConn, retErr>>

\* secConn, err := t.noiseHandshake(ctx, pc, channel, p, hash, false)
\*   the session runs with noise.DisablePeerIDCheck(): a handshake that
\*   succeeds yields whatever static key the remote proved
\* if err != nil { return conn, err }
noiseHandshake ==
    /\ UNCHANGED notDialVars
    /\ dialPc = "noiseHandshake"
    /\ \/ /\ ResultCase
          /\ secKey' = remoteId
          /\ PassStage(dialPc)
       \/ /\ ResultCase
          /\ tConn' = "conn"
          /\ err' = "noise"
          /\ dialPc' = "deferred"
          /\ UNCHANGED <<secKey, events>>
       \/ /\ CtxCase
          /\ tConn' = "conn"
          /\ err' = "noise: context canceled"
          /\ dialPc' = "deferred"
          /\ UNCHANGED <<secKey, events>>
    /\ parked' = FALSE
    /\ UNCHANGED cancelAt
    /\ UNCHANGED <<p, remoteId, certhash, ctxDone, scopeOpened, scopePeer,
                   scopeDone, pc, conn, connKey, retConn, retErr>>

\* conn.setRemotePublicKey(secConn.RemotePublicKey()); return conn, nil
DialSetRemotePublicKey ==
    /\ UNCHANGED notDialVars
    /\ UNCHANGED <<parked, cancelAt>>
    /\ dialPc = "setRemotePublicKey"
    /\ connKey' = secKey
    /\ tConn' = "conn"
    /\ err' = "nil"
    /\ events' = Append(events, dialPc)
    /\ dialPc' = "deferred"
    /\ UNCHANGED <<p, remoteId, certhash, ctxDone, scopeOpened, scopePeer,
                   scopeDone, pc, conn, secKey, retConn, retErr>>

\* connection.Close: closing the connection releases its scope exactly once
connectionCloseState(c) == IF c = "open" THEN "closed" ELSE c

connectionCloseDone(c, d) == IF c = "open" THEN d + 1 ELSE d

\* a dial without the deferred cleanup
DialDeferredNoCleanup ==
    /\ UNCHANGED notDialVars
    /\ UNCHANGED <<parked, cancelAt>>
    /\ dialPc = "deferred"
    /\ dialPc' = "DialCheck"
    /\ UNCHANGED <<p, remoteId, certhash, ctxDone, scopeOpened, scopePeer,
                   scopeDone, pc, conn, connKey, secKey, tConn, err, retConn,
                   retErr, events>>

\* defer func() { if err != nil { pc.Close(); tConn.Close() } }()
\*   closing the PeerConnection closes the connection built on it
DialDeferred ==
    /\ UNCHANGED notDialVars
    /\ UNCHANGED <<parked, cancelAt>>
    /\ dialPc = "deferred"
    /\ IF err # "nil"
          THEN LET c1 == IF pc # "nil" THEN connectionCloseState(conn)
                                       ELSE conn
                   d1 == IF pc # "nil" THEN connectionCloseDone(conn, scopeDone)
                                       ELSE scopeDone
                   c2 == IF tConn # "nil" THEN connectionCloseState(c1) ELSE c1
                   d2 == IF tConn # "nil" THEN connectionCloseDone(c1, d1)
                                          ELSE d1
               IN /\ pc' = IF pc # "nil" THEN "closed" ELSE pc
                  /\ conn' = c2
                  /\ scopeDone' = d2
          ELSE UNCHANGED <<pc, conn, scopeDone>>
    /\ dialPc' = "DialCheck"
    /\ UNCHANGED <<p, remoteId, certhash, ctxDone, scopeOpened, scopePeer,
                   connKey, secKey, tConn, err, retConn, retErr, events>>

\* conn, err := t.dial(...); if err != nil { scope.Done(); return nil, err }
\* return conn, nil
DialCheck ==
    /\ UNCHANGED notDialVars
    /\ UNCHANGED <<parked, cancelAt>>
    /\ dialPc = "DialCheck"
    /\ IF err # "nil"
          THEN /\ scopeDone' = scopeDone + 1
               /\ retConn' = "nil"
               /\ retErr' = err
          ELSE /\ retConn' = tConn
               /\ retErr' = "nil"
               /\ UNCHANGED scopeDone
    /\ dialPc' = "returned"
    /\ UNCHANGED <<p, remoteId, certhash, ctxDone, scopeOpened, scopePeer,
                   pc, conn, connKey, secKey, tConn, err, events>>

\* the caller closes the connection Dial gave it
ConnClose ==
    /\ UNCHANGED notDialVars
    /\ UNCHANGED <<parked, cancelAt>>
    /\ dialPc = "returned"
    /\ retConn = "conn"
    /\ conn' = connectionCloseState(conn)
    /\ scopeDone' = connectionCloseDone(conn, scopeDone)
    /\ pc' = "closed"
    /\ UNCHANGED <<dialPc, p, remoteId, certhash, ctxDone, scopeOpened,
                   scopePeer, connKey, secKey, tConn, err, retConn, retErr,
                   events>>

DialNext ==
    \/ DialCall
    \/ CtxCancel
    \/ OpenConnection
    \/ SetPeer
    \/ DialSimpleStage
    \/ DialSupportedHash
    \/ DialNewPeerConnection
    \/ DialPark
    \/ DialAwaitOpen
    \/ DialGetDetachedChannel
    \/ DialNewConnection
    \/ noiseHandshake
    \/ DialSetRemotePublicKey
    \/ DialDeferred
    \/ DialCheck
    \/ ConnClose

----------------------------------------------------------------------------
(*                     stream.Read and stream.CloseRead                    *)

Flags == {"none", "FIN", "STOP_SENDING", "RESET"}

\* s.nextMessage == nil
NilMessage == [some |-> FALSE, data |-> <<>>, flag |-> "none"]

\* what a Read call holds from s.reader.ReadMsg before it has the lock again
NoRead == [kind |-> "none", data |-> <<>>, flag |-> "none"]

\* the step just taken was not the return of a Read
NoReturn == [n |-> 0, err |-> "none"]

Min(a, b) == IF a < b THEN a ELSE b

\* what the remote has written so far: the number of messages, their
\* payloads concatenated in order, and the number of payload bytes up to
\* and including the first message that carries FIN (-1 while there is none)
NoneArrived == [msgs |-> 0, data |-> <<>>, fin |-> -1]

\* payload bytes are numbered in the order the remote wrote them
Payload(from, len) == [i \in 1..len |-> from + i - 1]

StreamInit ==
    /\ readerOnce = NoOne
    /\ mx = NoOne
    /\ rpc = [r \in Readers |-> "idle"]
    /\ rbuf = [r \in Readers |-> 0]
    /\ rmsg = [r \in Readers |-> NoRead]
    /\ lastRet = NoReturn
    /\ receiveState = "receiving"
    /\ sendState = "sending"
    /\ closeErr = "nil"
    /\ nextMessage = NilMessage
    /\ inbound = <<>>
    /\ chanEOF = FALSE
    /\ written = <<>>
    /\ ctrlOnce = FALSE
    /\ arrived = NoneArrived
    /\ delivered = <<>>
    /\ hist = [resetReturned |-> FALSE, afterReset |-> FALSE,
               eofReturned |-> FALSE, afterEOF |-> FALSE,
               abrupt |-> FALSE]

\* processIncomingFlag, receive side: FIN ends the data, RESET aborts it;
\* both only act on a stream that is still receiving
processIncomingFlagRecv(flag, rs) ==
    IF rs # "receiving" THEN rs
    ELSE IF flag = "FIN" THEN "data_read"
    ELSE IF flag = "RESET" THEN "reset"
    ELSE rs

\* processIncomingFlag, send side: STOP_SENDING closes the write half
processIncomingFlagSend(flag, ss) ==
    IF flag = "STOP_SENDING" /\ ss = "sending" THEN "closed" ELSE ss

\* terminal checks that forget the reset state
TerminalErrNoReset(ce, rs) ==
    IF ce # "nil" THEN ce
    ELSE IF rs = "data_read" THEN "EOF"
    ELSE "nil"

\* if s.closeErr != nil { return s.closeErr }; switch s.receiveState {...}
\* the error Read returns for a terminal stream, "nil" when not terminal
TerminalErr(ce, rs) ==
    IF ce # "nil" THEN ce
    ELSE IF rs = "data_read" THEN "EOF"
    ELSE IF rs = "reset" THEN "Reset"
    ELSE "nil"

\* a message whose flag is looked at before its data is drained
HasDataUnflagged(m) == Len(m.data) > 0 /\ m.flag = "none"

\* len(s.nextMessage.Message) > 0
HasData(m) == Len(m.data) > 0

\* n := copy(b, s.nextMessage.Message)
CopyLen(b, m) == Min(b, Len(m.data))

\* a slice that keeps the last byte copied
SliceFromKeep(d, n) == SubSeq(d, n, Len(d))

\* s.nextMessage.Message = s.nextMessage.Message[n:]
SliceFrom(d, n) == SubSeq(d, n + 1, Len(d))

\* a token that never refuses a send
CanSendAlways(holder) == TRUE

\* the capacity-1 channel readerOnce accepts a send only when it is empty
CanSend(holder) == holder = NoOne

\* a channel EOF that puts the stream back to receiving
StateOnEOFReceiving(rs) == "receiving"

\* the state after ReadMsg returned io.EOF (receiveState is not data_read)
StateOnEOF(rs) == "reset"

\* a channel EOF always reported as a clean end of stream
ErrOnEOFAlwaysEOF(rs) == "EOF"

\* the error Read returns after ReadMsg returned io.EOF
ErrOnEOF(rs) == IF rs = "data_read" THEN "EOF" ELSE "Reset"

\* the error Read returns after ReadMsg returned another error
ErrOnIOError(rs) ==
    IF rs = "reset" THEN "Reset"
    ELSE IF rs = "data_read" THEN "EOF"
    ELSE "ioerr"

\* a CloseRead that sends STOP_SENDING whatever the receive state
CloseReadSendsAlways(rs, ce) == ce = "nil"

\* if s.receiveState == receiveStateReceiving && s.closeErr == nil
CloseReadSends(rs, ce) == rs = "receiving" /\ ce = "nil"

\* Read returns (n, e): the deferred calls release the lock and the token
ReadReturn(r, n, e) ==
    /\ rpc' = [rpc EXCEPT ![r] = "idle"]
    /\ lastRet' = [n |-> n, err |-> e]
    /\ rmsg' = [rmsg EXCEPT ![r] = NoRead]
    /\ rbuf' = [rbuf EXCEPT ![r] = 0]
    /\ readerOnce' = NoOne
    /\ mx' = NoOne
    /\ hist' = [resetReturned |-> hist.resetReturned \/ e = "Reset",
                afterReset |-> hist.afterReset \/ hist.resetReturned,
                eofReturned |-> hist.eofReturned \/ e = "EOF",
                afterEOF |-> hist.afterEOF \/ hist.eofReturned,
                abrupt |-> hist.abrupt \/ (/\ rpc[r] = "relock"
                                           /\ rmsg[r].kind = "EOF"
                                           /\ e = "Reset")]

\* a goroutine invokes Read(b); it goes on to the send on readerOnce
ReadCall(r) ==
    /\ UNCHANGED notStreamVars
    /\ rpc[r] = "idle"
    /\ rpc' = [rpc EXCEPT ![r] = "token"]
    /\ lastRet' = NoReturn
    /\ UNCHANGED <<readerOnce, mx, rbuf, rmsg, receiveState, sendState, closeErr,
                   nextMessage, inbound, chanEOF, written, ctrlOnce,
                   arrived, delivered, hist>>

\* a Read that gives up with an error when the token is taken
ReadAcquireOrFail(r) ==
    /\ UNCHANGED notStreamVars
    /\ rpc[r] = "token"
    /\ IF CanSend(readerOnce)
          THEN /\ readerOnce' = r
               /\ rpc' = [rpc EXCEPT ![r] = "lock"]
               /\ lastRet' = NoReturn
          ELSE /\ rpc' = [rpc EXCEPT ![r] = "idle"]
               /\ lastRet' = [n |-> 0, err |-> "busy"]
               /\ UNCHANGED readerOnce
    /\ UNCHANGED <<mx, rbuf, rmsg, receiveState, sendState, closeErr,
                   nextMessage, inbound, chanEOF, written, ctrlOnce,
                   arrived, delivered, hist>>

\* s.readerOnce <- struct{}{}
ReadAcquire(r) ==
    /\ UNCHANGED notStreamVars
    /\ rpc[r] = "token"
    /\ CanSend(readerOnce)
    /\ readerOnce' = r
    /\ rpc' = [rpc EXCEPT ![r] = "lock"]
    /\ lastRet' = NoReturn
    /\ UNCHANGED <<mx, rbuf, rmsg, receiveState, sendState, closeErr,
                   nextMessage, inbound, chanEOF, written, ctrlOnce,
                   arrived, delivered,
                   hist>>

\* a buffer that is never taken for empty
EmptyBufferNever(n) == FALSE

\* if len(b) == 0
EmptyBuffer(n) == n = 0

\* s.mx.Lock(); the terminal checks; if len(b) == 0 { return 0, nil },
\* for a Read whose buffer has length n
ReadEnterWith(r, n) ==
    /\ UNCHANGED notStreamVars
    /\ rpc[r] = "lock"
    /\ mx = NoOne
    /\ IF TerminalErr(closeErr, receiveState) # "nil"
          THEN ReadReturn(r, 0, TerminalErr(closeErr, receiveState))
       ELSE IF EmptyBuffer(n)
          THEN ReadReturn(r, 0, "nil")
       ELSE /\ mx' = r
            /\ rpc' = [rpc EXCEPT ![r] = "loop"]
            /\ rbuf' = [rbuf EXCEPT ![r] = n]
            /\ lastRet' = NoReturn
            /\ UNCHANGED <<readerOnce, rmsg, hist>>
    /\ UNCHANGED <<receiveState, sendState, closeErr, nextMessage,
                   inbound, chanEOF, written, ctrlOnce, arrived,
                   delivered>>

\* (len(b), an argument of the call, is first looked at here)
ReadEnter(r) == \E n \in 0..MaxBuf : ReadEnterWith(r, n)

\* a Read that keeps the stream lock across the channel read
LockKeptForReadMsg(r) == r

\* s.mx.Unlock() before s.reader.ReadMsg(&msg): the holder of the stream
\* lock while Read r waits on the channel
LockDuringReadMsg(r) == NoOne

\* one pass of the for loop with the lock held
ReadLoop(r) ==
    /\ UNCHANGED notStreamVars
    /\ rpc[r] = "loop"
    /\ mx = r
    /\ IF ~nextMessage.some
          THEN \* s.mx.Unlock(); s.reader.ReadMsg(&msg)
               /\ mx' = LockDuringReadMsg(r)
               /\ rpc' = [rpc EXCEPT ![r] = "readMsg"]
               /\ lastRet' = NoReturn
               /\ UNCHANGED <<readerOnce, rmsg, hist, nextMessage,
                              delivered, receiveState, sendState, rbuf>>
       ELSE IF HasData(nextMessage)
          THEN \* copy into b and return
               LET n == CopyLen(rbuf[r], nextMessage)
               IN /\ delivered' = delivered \o SubSeq(nextMessage.data, 1, n)
                  /\ nextMessage' = [nextMessage EXCEPT
                                        !.data = SliceFrom(@, n)]
                  /\ ReadReturn(r, n, "nil")
                  /\ UNCHANGED <<receiveState, sendState>>
       ELSE \* process flags on the message after reading all the data
            LET rs == processIncomingFlagRecv(nextMessage.flag, receiveState)
                ss == processIncomingFlagSend(nextMessage.flag, sendState)
            IN /\ receiveState' = rs
               /\ sendState' = ss
               /\ nextMessage' = NilMessage
               /\ UNCHANGED delivered
               /\ IF TerminalErr(closeErr, rs) # "nil"
                     THEN ReadReturn(r, 0, TerminalErr(closeErr, rs))
                     ELSE /\ lastRet' = NoReturn
                          /\ UNCHANGED <<readerOnce, mx, rpc, rmsg, hist,
                                         rbuf>>
    /\ UNCHANGED <<closeErr, inbound, chanEOF, written, ctrlOnce,
                   arrived>>

\* s.reader.ReadMsg(&msg) returns, with the stream lock released:
\* the next message, io.EOF once the channel is closed and drained, or
\* another error (a read deadline, a failed transport)
ReadMsg(r) ==
    /\ UNCHANGED notStreamVars
    /\ rpc[r] = "readMsg"
    /\ \/ /\ inbound # <<>>
          /\ rmsg' = [rmsg EXCEPT ![r] = [kind |-> "msg",
                                          data |-> Head(inbound).data,
                                          flag |-> Head(inbound).flag]]
          /\ inbound' = Tail(inbound)
       \/ /\ inbound = <<>>
          /\ chanEOF
          /\ rmsg' = [rmsg EXCEPT ![r] = [kind |-> "EOF", data |-> <<>>,
                                          flag |-> "none"]]
          /\ UNCHANGED inbound
       \/ /\ rmsg' = [rmsg EXCEPT ![r] = [kind |-> "ERR", data |-> <<>>,
                                          flag |-> "none"]]
          /\ UNCHANGED inbound
    /\ rpc' = [rpc EXCEPT ![r] = "relock"]
    /\ lastRet' = NoReturn
    /\ UNCHANGED <<readerOnce, mx, rbuf, receiveState, sendState,
                   closeErr, nextMessage, chanEOF, written, ctrlOnce,
                   arrived, delivered, hist>>

\* s.mx.Lock() after ReadMsg, then the error handling or s.nextMessage = &msg
ReadRelock(r) ==
    /\ UNCHANGED notStreamVars
    /\ rpc[r] = "relock"
    /\ mx = NoOne
    /\ IF rmsg[r].kind = "EOF"
          THEN /\ receiveState' = IF receiveState = "data_read"
                                     THEN receiveState
                                     ELSE StateOnEOF(receiveState)
               /\ ReadReturn(r, 0, ErrOnEOF(receiveState))
               /\ UNCHANGED nextMessage
       ELSE IF rmsg[r].kind = "ERR"
          THEN /\ ReadReturn(r, 0, ErrOnIOError(receiveState))
               /\ UNCHANGED <<receiveState, nextMessage>>
       ELSE /\ nextMessage' = [some |-> TRUE, data |-> rmsg[r].data,
                               flag |-> rmsg[r].flag]
            /\ mx' = r
            /\ rpc' = [rpc EXCEPT ![r] = "loop"]
            /\ rmsg' = [rmsg EXCEPT ![r] = NoRead]
            /\ lastRet' = NoReturn
            /\ UNCHANGED <<readerOnce, hist, receiveState, rbuf>>
    /\ UNCHANGED <<sendState, closeErr, inbound, chanEOF, written,
                   ctrlOnce, arrived, delivered>>

\* CloseRead, from s.mx.Lock() to the deferred s.mx.Unlock();
\* controlMessageReaderOnce.Do spawns the control-message reader once
CloseRead ==
    /\ UNCHANGED notStreamVars
    /\ mx = NoOne
    /\ IF CloseReadSends(receiveState, closeErr)
          THEN /\ written' = Append(written, "STOP_SENDING")
               /\ receiveState' = "reset"
          ELSE UNCHANGED <<written, receiveState>>
    /\ ctrlOnce' = TRUE
    /\ lastRet' = NoReturn
    /\ UNCHANGED <<readerOnce, mx, rpc, rbuf, rmsg, sendState,
                   closeErr, nextMessage, inbound, chanEOF, arrived,
                   delivered, hist>>

\* the control-message reader CloseRead spawned drains a late inbound
\* message and honours its flag
controlMessageReader ==
    /\ UNCHANGED notStreamVars
    /\ ctrlOnce
    /\ mx = NoOne
    /\ inbound # <<>>
    /\ receiveState' = processIncomingFlagRecv(Head(inbound).flag, receiveState)
    /\ sendState' = processIncomingFlagSend(Head(inbound).flag, sendState)
    /\ inbound' = Tail(inbound)
    /\ lastRet' = NoReturn
    /\ UNCHANGED <<readerOnce, mx, rpc, rbuf, rmsg, closeErr,
                   nextMessage, chanEOF, written, ctrlOnce, arrived,
                   delivered, hist>>

\* the stream is closed with an error (its connection shuts down):
\* close_err is set once and stays
closeWithError ==
    /\ UNCHANGED notStreamVars
    /\ mx = NoOne
    /\ closeErr = "nil"
    /\ closeErr' = "closed"
    /\ lastRet' = NoReturn
    /\ UNCHANGED <<readerOnce, mx, rpc, rbuf, rmsg, receiveState,
                   sendState, nextMessage, inbound, chanEOF, written,
                   ctrlOnce, arrived, delivered, hist>>

\* the remote writes one message {flag?, data?} on the data channel
RemoteWrite ==
    /\ UNCHANGED notStreamVars
    /\ ~chanEOF
    /\ arrived.msgs < MaxMsgs
    /\ \E len \in DataLens, f \in Flags :
          LET m == [data |-> Payload(Len(arrived.data) + 1, len),
                    flag |-> f]
          IN /\ inbound' = Append(inbound, m)
             /\ arrived' = [msgs |-> arrived.msgs + 1,
                            data |-> arrived.data \o m.data,
                            fin |-> IF arrived.fin = -1 /\ f = "FIN"
                                       THEN Len(arrived.data) + len
                                       ELSE arrived.fin]
    /\ lastRet' = NoReturn
    /\ UNCHANGED <<readerOnce, mx, rpc, rbuf, rmsg, receiveState,
                   sendState, closeErr, nextMessage, chanEOF, written,
                   ctrlOnce, delivered, hist>>

\* the remote closes the data channel
RemoteClose ==
    /\ UNCHANGED notStreamVars
    /\ ~chanEOF
    /\ chanEOF' = TRUE
    /\ lastRet' = NoReturn
    /\ UNCHANGED <<readerOnce, mx, rpc, rbuf, rmsg, receiveState,
                   sendState, closeErr, nextMessage, inbound, written,
                   ctrlOnce, arrived, delivered, hist>>

StreamNext ==
    \/ \E r \in Readers : ReadCall(r)
    \/ \E r \in Readers : ReadAcquire(r)
    \/ \E r \in Readers : ReadEnter(r)
    \/ \E r \in Readers : ReadLoop(r)
    \/ \E r \in Readers : ReadMsg(r)
    \/ \E r \in Readers : ReadRelock(r)
    \/ CloseRead
    \/ controlMessageReader
    \/ closeWithError
    \/ RemoteWrite
    \/ RemoteClose

----------------------------------------------------------------------------
(*                 New and WithPeerConnectionIceTimeouts                   *)

\* DefaultDisconnectedTimeout, DefaultFailedTimeout, DefaultKeepaliveTimeout
DefaultDisconnectedTimeout == 5

DefaultFailedTimeout == 25

DefaultKeepaliveTimeout == 2

IceTimeouts == [Disconnect : Durations, Failed : Durations,
                Keepalive : Durations]

NoTimeouts == [Disconnect |-> 0, Failed |-> 0, Keepalive |-> 0]

\* no IceTimeouts option has been applied (last)
NoOption == [given |-> FALSE, tm |-> NoTimeouts]

NewInit ==
    /\ newPc = "idle"
    /\ peerConnectionTimeouts = NoTimeouts
    /\ maxInFlightConnections = 0
    /\ nOpts = 0
    /\ lastIn = NoOption
    /\ newRet = "none"

\* if timeouts.X == 0 { timeouts.X = t.peerConnectionTimeouts.X }
EffectiveTimeouts(in, cur) ==
    [Disconnect |-> IF in.Disconnect = 0 THEN cur.Disconnect
                                         ELSE in.Disconnect,
     Failed |-> IF in.Failed = 0 THEN cur.Failed ELSE in.Failed,
     Keepalive |-> IF in.Keepalive = 0 THEN cur.Keepalive ELSE in.Keepalive]

\* if timeouts.Disconnect != 0 {
\*   if timeouts.Failed != 0 && timeouts.Failed < timeouts.Disconnect -> error
\*   if timeouts.Keepalive != 0 && timeouts.Disconnect <= timeouts.Keepalive
\*      -> error }
TimeoutsRejected(tm) ==
    /\ tm.Disconnect # 0
    /\ \/ tm.Failed # 0 /\ tm.Failed < tm.Disconnect
       \/ tm.Keepalive # 0 /\ tm.Disconnect <= tm.Keepalive

\* New(privKey, psk, gater, rcmgr, opts...) up to the construction of the
\* transport: a psk, or a failing key / certificate / noise setup, ends it
New ==
    /\ UNCHANGED notNewVars
    /\ newPc = "idle"
    /\ \/ /\ newPc' = "returned"
          /\ newRet' = "error"
          /\ UNCHANGED <<peerConnectionTimeouts, maxInFlightConnections>>
       \/ /\ newPc' = "opts"
          /\ peerConnectionTimeouts' =
                [Disconnect |-> DefaultDisconnectedTimeout,
                 Failed |-> DefaultFailedTimeout,
                 Keepalive |-> DefaultKeepaliveTimeout]
          /\ maxInFlightConnections' = 1
          /\ UNCHANGED newRet
    /\ UNCHANGED <<nOpts, lastIn>>

\* one pass of `for _, opt := range opts` with an option built by
\* WithPeerConnectionIceTimeouts(timeouts)
WithPeerConnectionIceTimeouts ==
    /\ UNCHANGED notNewVars
    /\ newPc = "opts"
    /\ nOpts < MaxOpts
    /\ \E in \in IceTimeouts :
          LET tm == EffectiveTimeouts(in, peerConnectionTimeouts)
          IN /\ lastIn' = [given |-> TRUE, tm |-> in]
             /\ IF TimeoutsRejected(tm)
                   THEN /\ newPc' = "returned"
                        /\ newRet' = "error"
                        /\ UNCHANGED peerConnectionTimeouts
                   ELSE /\ peerConnectionTimeouts' = tm
                        /\ UNCHANGED <<newPc, newRet>>
    /\ nOpts' = nOpts + 1
    /\ UNCHANGED maxInFlightConnections

\* one pass of the loop with WithListenerMaxInFlightConnections(m)
WithListenerMaxInFlightConnections ==
    /\ UNCHANGED notNewVars
    /\ newPc = "opts"
    /\ nOpts < MaxOpts
    /\ \E m \in {0, 2} : maxInFlightConnections' = m
    /\ nOpts' = nOpts + 1
    /\ lastIn' = NoOption
    /\ UNCHANGED <<newPc, peerConnectionTimeouts, newRet>>

\* the loop is over: return transport, nil
NewReturn ==
    /\ UNCHANGED notNewVars
    /\ newPc = "opts"
    /\ newPc' = "returned"
    /\ newRet' = "transport"
    /\ UNCHANGED <<peerConnectionTimeouts, maxInFlightConnections, nOpts,
                   lastIn>>

NewNext ==
    \/ New
    \/ WithPeerConnectionIceTimeouts
    \/ WithListenerMaxInFlightConnections
    \/ NewReturn

----------------------------------------------------------------------------
(*               noiseHandshake and generateNoisePrologue                  *)

\* noiseHandshake's argument inbound: false in dial, true in the listener
Inbound(side) == side = "listener"

Other(side) == IF side = "dialer" THEN "listener" ELSE "dialer"

\* the certificate of a side
CertOf(side) == IF side = "dialer" THEN hsIn.certD ELSE hsIn.certL

\* crypto.Hash of a supported multihash code
CryptoHash(code) == IF code = "sha2-512" THEN "SHA512" ELSE "SHA256"

\* noiseHandshake's argument hash: in dial the hash function of the remote
\* certhash; the listener hashes with SHA-256
HashArg(side) ==
    IF side = "dialer" THEN CryptoHash(hsIn.code) ELSE "SHA256"

\* internal.Fingerprint(cert, algo): h := algo.New(); h.Write(cert.Raw);
\* h.Sum(nil) -- the digest of the certificate under that algorithm
Fingerprint(cert, algo) == <<algo, cert>>

\* webrtc.DTLSFingerprint.Value: the SHA-256 digest as colon-separated hex
HexFingerprint(cert) == <<"hex", Fingerprint(cert, "SHA256")>>

\* encoding.DecodeInterpersedHexFromASCIIString
DecodeInterpersedHex(h) == h[2]

\* multihash.Encode(digest, code): the code, then the digest
MultihashEncode(digest, code) == <<code>> \o <<digest>>

\* the prologue generateNoisePrologue returns
generateNoisePrologue(side) ==
    LET remoteFpBytes == Fingerprint(CertOf(Other(side)), HashArg(side))
        localFpBytes == DecodeInterpersedHex(HexFingerprint(CertOf(side)))
        localEncoded == MultihashEncode(localFpBytes, "SHA2_256")
        remoteEncoded == MultihashEncode(remoteFpBytes, "SHA2_256")
        result == <<"libp2p-webrtc-noise:">>
    IN IF Inbound(side)
          THEN result \o remoteEncoded \o localEncoded
          ELSE result \o localEncoded \o remoteEncoded

\* a handshake that runs Noise in the direction of the transport
NoiseRoleDirect(inb) == IF inb THEN "SecureInbound" ELSE "SecureOutbound"

\* if inbound { SecureOutbound(...) } else { SecureInbound(...) }
NoiseRole(inb) == IF inb THEN "SecureOutbound" ELSE "SecureInbound"

NoHandshake == [certD |-> "none", certL |-> "none", code |-> "none"]

HsInit ==
    /\ hsIn = NoHandshake
    /\ hsPos = [s \in Sides |-> "idle"]
    /\ prologue = [s \in Sides |-> <<>>]
    /\ peerIDCheck = [s \in Sides |-> "on"]
    /\ role = [s \in Sides |-> "none"]

\* a dialer and a listener reach the Noise stage of the same handshake:
\* dial calls noiseHandshake(..., remoteHashFunction, false), the listener
\* calls it with inbound = true
HsStart ==
    /\ UNCHANGED notHsVars
    /\ hsIn = NoHandshake
    /\ \E cd \in Certs, cl \in Certs, code \in SupportedHashes :
          hsIn' = [certD |-> cd, certL |-> cl, code |-> code]
    /\ hsPos' = [s \in Sides |-> "prologue"]
    /\ UNCHANGED <<prologue, peerIDCheck, role>>

\* prologue, err := t.generateNoisePrologue(pc, hash, inbound)
HsPrologue(side) ==
    /\ UNCHANGED notHsVars
    /\ hsPos[side] = "prologue"
    /\ \/ /\ prologue' = [prologue EXCEPT
                             ![side] = generateNoisePrologue(side)]
          /\ hsPos' = [hsPos EXCEPT ![side] = "session"]
       \/ /\ hsPos' = [hsPos EXCEPT ![side] = "failed"]
          /\ UNCHANGED prologue
    /\ UNCHANGED <<hsIn, peerIDCheck, role>>

\* t.noiseTpt.WithSessionOptions(noise.Prologue(prologue),
\*                               noise.DisablePeerIDCheck())
HsSessionOptions(side) ==
    /\ UNCHANGED notHsVars
    /\ hsPos[side] = "session"
    /\ \/ /\ peerIDCheck' = [peerIDCheck EXCEPT ![side] = "disabled"]
          /\ hsPos' = [hsPos EXCEPT ![side] = "secure"]
       \/ /\ hsPos' = [hsPos EXCEPT ![side] = "failed"]
          /\ UNCHANGED peerIDCheck
    /\ UNCHANGED <<hsIn, prologue, role>>

\* the call of SecureOutbound or SecureInbound: the side enters Noise
HsSecure(side) ==
    /\ UNCHANGED notHsVars
    /\ hsPos[side] = "secure"
    /\ role' = [role EXCEPT ![side] = NoiseRole(Inbound(side))]
    /\ hsPos' = [hsPos EXCEPT ![side] = "running"]
    /\ UNCHANGED <<hsIn, prologue, peerIDCheck>>

\* the Noise handshake ends on a side: it can only succeed when the other
\* side runs the other role over the same prologue
HsFinish(side) ==
    /\ UNCHANGED notHsVars
    /\ hsPos[side] = "running"
    /\ \/ /\ role[Other(side)] \notin {"none", role[side]}
          /\ prologue[Other(side)] = prologue[side]
          /\ hsPos' = [hsPos EXCEPT ![side] = "secured"]
       \/ hsPos' = [hsPos EXCEPT ![side] = "failed"]
    /\ UNCHANGED <<hsIn, prologue, peerIDCheck, role>>

HsNext ==
    \/ HsStart
    \/ \E side \in Sides : HsPrologue(side)
    \/ \E side \in Sides : HsSessionOptions(side)
    \/ \E side \in Sides : HsSecure(side)
    \/ \E side \in Sides : HsFinish(side)

----------------------------------------------------------------------------
(*              upgrader.Upgrade as driven by upgrader_test.go             *)

\* the connection gaters of the tests: none, or a testGater with its two
\* switches BlockAccept and BlockSecured
Gaters == {[present |-> FALSE, blockAccept |-> FALSE, blockSecured |-> FALSE]}
          \union [present : {TRUE}, blockAccept : BOOLEAN,
                   blockSecured : BOOLEAN]

\* negotiatingMuxer and errorMuxer
Muxers == {"negotiatingMuxer", "errorMuxer"}

\* network.NullScope, or a scope that records its calls (the mock scope)
Scopes == {"NullScope", "MockScope"}

\* an upgrade is started by the test helper dial or by a listener that
\* accepted a connection
Callers == {"dial", "accept"}

UpgradeInputs == [via : Callers, p : Peers, remote : Peers, gater : Gaters,
                  localMuxer : Muxers, remoteMuxer : Muxers,
                  scope : Scopes, rcmgrBlocks : BOOLEAN]

NoUpgrade == [via |-> "none"]

\* a helper dial that upgrades the connection as an accepted one
dialDirInbound == "inbound"

\* upgrader.Upgrade(context.Background(), nil, macon, network.DirOutbound,
\*                  p, scope)
dialDir == "outbound"

\* the direction of an upgrade
Direction(in) == IF in.via = "dial" THEN dialDir ELSE "inbound"

\* an errorMuxer that sets up without an error
errorMuxerOK(isServer) == "nil"

\* func (m *errorMuxer) NegotiateMuxer(c, isServer):
\* return nil, errors.New("mux error")
errorMuxer(isServer) == "mux error"

\* func (m *negotiatingMuxer) NegotiateMuxer(c, isServer): the server
\* writes "setup", the client reads it; whichever fails returns its error
negotiatingMuxer(isServer, peerWrote) ==
    IF isServer THEN "nil"
    ELSE IF peerWrote THEN "nil" ELSE "EOF"

\* the result of the muxer negotiation on this end: the other end writes
\* "setup" only when it is the server and runs a muxer that negotiates
NegotiateMuxer(in) ==
    LET isServer == Direction(in) = "inbound"
        peerWrote == ~isServer /\ in.remoteMuxer = "negotiatingMuxer"
    IN IF in.localMuxer = "errorMuxer"
          THEN errorMuxer(isServer)
          ELSE negotiatingMuxer(isServer, peerWrote)

\* a call on the connection scope: NullScope keeps nothing, the mock scope
\* records every call
ScopeCall(in, calls, c) ==
    IF in.scope = "MockScope" THEN Append(calls, c) ELSE calls

UpInit ==
    /\ upIn = NoUpgrade
    /\ upPc = "idle"
    /\ secPeer = "nil"
    /\ scopeHasPeer = FALSE
    /\ scopeCalls = <<>>
    /\ upConn = "nil"
    /\ upErr = "nil"

\* dial(t, upgrader, raddr, p, scope), or a listener accepting a connection
UpgradeCall ==
    /\ UNCHANGED notUpVars
    /\ upPc = "idle"
    /\ \E in \in UpgradeInputs :
          /\ upIn' = in
          /\ scopeHasPeer' = (in.scope = "NullScope")
          /\ upPc' = IF Direction(in) = "inbound" THEN "InterceptAccept"
                                                  ELSE "setupSecurity"
    /\ UNCHANGED <<secPeer, scopeCalls, upConn, upErr>>

\* Upgrade returns (nil, err) after connScope.Done()
UpgradeFail(e) ==
    /\ upErr' = e
    /\ upPc' = "returned"
    /\ scopeCalls' = ScopeCall(upIn, scopeCalls, [call |-> "Done"])
    /\ UNCHANGED upConn

\* the listener asks the gater before it upgrades an accepted connection
InterceptAccept ==
    /\ UNCHANGED notUpVars
    /\ upPc = "InterceptAccept"
    /\ IF upIn.gater.present /\ upIn.gater.blockAccept
          THEN UpgradeFail("gater rejected connection")
          ELSE /\ upPc' = "setupSecurity"
               /\ UNCHANGED <<scopeCalls, upConn, upErr>>
    /\ UNCHANGED <<upIn, secPeer, scopeHasPeer>>

\* the security handshake: the insecure transport of the tests fails an
\* outbound upgrade whose expected peer is not the remote peer
setupSecurity ==
    /\ UNCHANGED notUpVars
    /\ upPc = "setupSecurity"
    /\ IF Direction(upIn) = "outbound" /\ upIn.p # upIn.remote
          THEN /\ UpgradeFail("failed to negotiate security protocol")
               /\ UNCHANGED secPeer
          ELSE /\ secPeer' = upIn.remote
               /\ upPc' = "InterceptSecured"
               /\ UNCHANGED <<scopeCalls, upConn, upErr>>
    /\ UNCHANGED <<upIn, scopeHasPeer>>

\* the gater is asked about the secured connection
InterceptSecured ==
    /\ UNCHANGED notUpVars
    /\ upPc = "InterceptSecured"
    /\ IF upIn.gater.present /\ upIn.gater.blockSecured
          THEN UpgradeFail("gater rejected connection")
          ELSE /\ upPc' = "PeerScope"
               /\ UNCHANGED <<scopeCalls, upConn, upErr>>
    /\ UNCHANGED <<upIn, secPeer, scopeHasPeer>>

\* connScope.PeerScope() == nil ?  -> connScope.SetPeer(sconn.RemotePeer())
UpgradeSetPeer ==
    /\ UNCHANGED notUpVars
    /\ upPc = "PeerScope"
    /\ LET c1 == ScopeCall(upIn, scopeCalls, [call |-> "PeerScope"])
           c2 == ScopeCall(upIn, c1, [call |-> "SetPeer", peer |-> secPeer])
       IN IF scopeHasPeer
             THEN /\ scopeCalls' = c1
                  /\ upPc' = "setupMuxer"
                  /\ UNCHANGED <<scopeHasPeer, upErr>>
          ELSE IF upIn.rcmgrBlocks
             THEN /\ scopeCalls' = ScopeCall(upIn, c2, [call |-> "Done"])
                  /\ upErr' = "resource manager"
                  /\ upPc' = "returned"
                  /\ UNCHANGED scopeHasPeer
          ELSE /\ scopeCalls' = c2
               /\ scopeHasPeer' = TRUE
               /\ upPc' = "setupMuxer"
               /\ UNCHANGED upErr
    /\ UNCHANGED <<upIn, secPeer, upConn>>

\* the muxer is negotiated within connScope.PeerScope()
setupMuxer ==
    /\ UNCHANGED notUpVars
    /\ upPc = "setupMuxer"
    /\ LET c1 == ScopeCall(upIn, scopeCalls, [call |-> "PeerScope"])
       IN IF NegotiateMuxer(upIn) # "nil"
             THEN /\ scopeCalls' = ScopeCall(upIn, c1, [call |-> "Done"])
                  /\ upErr' = "failed to negotiate stream multiplexer"
                  /\ upPc' = "returned"
                  /\ UNCHANGED upConn
          ELSE /\ scopeCalls' = c1
               /\ upConn' = "open"
               /\ upPc' = "returned"
               /\ UNCHANGED upErr
    /\ UNCHANGED <<upIn, secPeer, scopeHasPeer>>

\* conn.Close() on the upgraded connection releases its scope
UpgradedConnClose ==
    /\ UNCHANGED notUpVars
    /\ upPc = "returned"
    /\ upConn = "open"
    /\ upConn' = "closed"
    /\ scopeCalls' = ScopeCall(upIn, scopeCalls, [call |-> "Done"])
    /\ UNCHANGED <<upIn, upPc, secPeer, scopeHasPeer, upErr>>

UpNext ==
    \/ UpgradeCall
    \/ InterceptAccept
    \/ setupSecurity
    \/ InterceptSecured
    \/ UpgradeSetPeer
    \/ setupMuxer
    \/ UpgradedConnClose

----------------------------------------------------------------------------
(*                    Swarm.InterfaceListenAddresses                       *)

\* const ifaceAddrsCacheDuration = 1 * time.Minute, in ticks of the clock
ifaceAddrsCacheDuration == 2

\* listener addresses, as sequences of components: an unspecified IPv4
\* address, an unspecified IPv6 address behind an ip6zone, a specific one
ListenAddrs == {<<"ip4any">>, <<"ip6zone", "ip6any">>, <<"ip4lo">>}

\* what the resolver can find: one of two sets of interfaces, or a failure
Interfaces == {"ifA", "ifB", "down"}

\* ma.ForEach + ma.SplitFirst: the address without a leading ip6zone
StripZone(a) == IF a # <<>> /\ Head(a) = "ip6zone" THEN Tail(a) ELSE a

\* listenAddressesNoLock: the listeners' addresses without their ip6zone,
\* those that are empty afterwards left out
listenAddressesNoLock(m) == {StripZone(a) : a \in m} \ {<<>>}

Unspecified(a) == a \in {<<"ip4any">>, <<"ip6any">>}

\* manet.ResolveUnspecifiedAddresses fails when it needs the interfaces and
\* cannot get them
ResolveFails(addrs, ifs) ==
    ifs = "down" /\ \E a \in addrs : Unspecified(a)

\* manet.ResolveUnspecifiedAddresses: unspecified addresses become the
\* addresses of the interfaces
ResolveUnspecifiedAddresses(addrs, ifs) ==
    {IF Unspecified(a) THEN a \o <<ifs>> ELSE a : a \in addrs}

\* a return of the slice itself, sharing its array with the cached list
ShareSlice(addrs) == [err |-> "nil", addrs |-> addrs,
                      shared |-> addrs # {}]

\* return append(ifaceListenAddres[:0:0], ifaceListenAddres...), nil
CloneSlice(addrs) == [err |-> "nil", addrs |-> addrs, shared |-> FALSE]

\* a re-check that always finds the cache invalid
AlwaysInvalid(t, eol) == TRUE

\* if time.Now().After(s.listeners.cacheEOL), under the write lock
StillInvalid(t, eol) == t > eol

\* isEOL := time.Now().After(s.listeners.cacheEOL)
IsEOL(t, eol) == t > eol

\* an early exit that keeps the write lock
NoUnlockEarlyExit(c) == c

\* s.listeners.Unlock() // Lock early exit
UnlockEarlyExit(c) == NoOne

NoLocals == [addrs |-> {}, isEOL |-> FALSE]

NoResult == [err |-> "none", addrs |-> {}, shared |-> FALSE]

\* a swarm with the listeners m whose cache was never filled
SwInitWith(m) ==
    /\ listenersM = m
    /\ ifaceListenAddres = {}
    /\ cacheEOL = 0
    /\ now = 1
    /\ ifaces = "ifA"
    /\ listenersLock = NoOne
    /\ ipc = [c \in IfaceCallers |-> "idle"]
    /\ iloc = [c \in IfaceCallers |-> NoLocals]
    /\ iret = [c \in IfaceCallers |-> NoResult]

\* a swarm that does not listen
SwInit == SwInitWith({})

\* s.listeners.RLock(); read the cached list and the expiry; RUnlock()
IfaceReadCache(c) ==
    /\ UNCHANGED notSwVars
    /\ ipc[c] \in {"idle", "done"}
    /\ listenersLock = NoOne
    /\ iloc' = [iloc EXCEPT ![c] = [addrs |-> ifaceListenAddres,
                                    isEOL |-> IsEOL(now, cacheEOL)]]
    /\ ipc' = [ipc EXCEPT ![c] = "checked"]
    /\ iret' = [iret EXCEPT ![c] = NoResult]
    /\ UNCHANGED <<listenersM, ifaceListenAddres, cacheEOL, now, ifaces,
                   listenersLock>>

\* if !isEOL: the cache is valid, return a clone of the list
IfaceReturnCached(c) ==
    /\ UNCHANGED notSwVars
    /\ ipc[c] = "checked"
    /\ ~iloc[c].isEOL
    /\ iret' = [iret EXCEPT ![c] = CloneSlice(iloc[c].addrs)]
    /\ ipc' = [ipc EXCEPT ![c] = "done"]
    /\ iloc' = [iloc EXCEPT ![c] = NoLocals]
    /\ UNCHANGED <<listenersM, ifaceListenAddres, cacheEOL, now, ifaces,
                   listenersLock>>

\* s.listeners.Lock() // Lock start
IfaceLock(c) ==
    /\ UNCHANGED notSwVars
    /\ ipc[c] = "checked"
    /\ iloc[c].isEOL
    /\ listenersLock = NoOne
    /\ listenersLock' = c
    /\ ipc' = [ipc EXCEPT ![c] = "locked"]
    /\ UNCHANGED <<listenersM, ifaceListenAddres, cacheEOL, now, ifaces,
                   iloc, iret>>

\* the section under the write lock, up to the return
IfaceRefresh(c) ==
    /\ UNCHANGED notSwVars
    /\ ipc[c] = "locked"
    /\ listenersLock = c
    /\ LET listenAddres == listenAddressesNoLock(listenersM)
           resolved == IF listenAddres # {}
                          THEN ResolveUnspecifiedAddresses(listenAddres,
                                                           ifaces)
                          ELSE {}
       IN IF ~StillInvalid(now, cacheEOL)
             THEN \* another call refreshed the cache: use its list
                  /\ iret' = [iret EXCEPT ![c] =
                                 CloneSlice(ifaceListenAddres)]
                  /\ listenersLock' = NoOne
                  /\ UNCHANGED <<ifaceListenAddres, cacheEOL>>
          ELSE IF listenAddres # {} /\ ResolveFails(listenAddres, ifaces)
             THEN \* return nil, err
                  /\ iret' = [iret EXCEPT ![c] =
                                 [err |-> "resolve", addrs |-> {},
                                  shared |-> FALSE]]
                  /\ listenersLock' = UnlockEarlyExit(c)
                  /\ UNCHANGED <<ifaceListenAddres, cacheEOL>>
          ELSE \* store the new list, which no earlier result shares
               /\ ifaceListenAddres' = resolved
               /\ cacheEOL' = now + ifaceAddrsCacheDuration
               /\ iret' = [d \in IfaceCallers |->
                              IF d = c THEN CloneSlice(resolved)
                              ELSE [iret[d] EXCEPT !.shared = FALSE]]
               /\ listenersLock' = NoOne
    /\ ipc' = [ipc EXCEPT ![c] = "done"]
    /\ iloc' = [iloc EXCEPT ![c] = NoLocals]
    /\ UNCHANGED <<listenersM, now, ifaces>>

\* a caller overwrites an element of the slice it got
IfaceModifyResult(c) ==
    /\ UNCHANGED notSwVars
    /\ ipc[c] = "done"
    /\ iret[c].addrs # {}
    /\ <<"junk">> \notin iret[c].addrs
    /\ \E a \in iret[c].addrs :
          LET changed(list) == (list \ {a}) \union {<<"junk">>}
          IN /\ iret' = [iret EXCEPT ![c].addrs = changed(@)]
             /\ ifaceListenAddres' = IF iret[c].shared
                                        THEN changed(ifaceListenAddres)
                                        ELSE ifaceListenAddres
    /\ UNCHANGED <<listenersM, cacheEOL, now, ifaces, listenersLock, ipc,
                   iloc>>

\* time passes
Tick ==
    /\ UNCHANGED notSwVars
    /\ now < MaxTime
    /\ now' = now + 1
    /\ UNCHANGED <<listenersM, ifaceListenAddres, cacheEOL, ifaces,
                   listenersLock, ipc, iloc, iret>>

\* the interfaces of the host change, or stop being readable
InterfacesChange ==
    /\ UNCHANGED notSwVars
    /\ \E i \in Interfaces \ {ifaces} : ifaces' = i
    /\ UNCHANGED <<listenersM, ifaceListenAddres, cacheEOL, now,
                   listenersLock, ipc, iloc, iret>>

SwNext ==
    \/ \E c \in IfaceCallers : IfaceReadCache(c)
    \/ \E c \in IfaceCallers : IfaceReturnCached(c)
    \/ \E c \in IfaceCallers : IfaceLock(c)
    \/ \E c \in IfaceCallers : IfaceRefresh(c)
    \/ \E c \in IfaceCallers : IfaceModifyResult(c)
    \/ Tick
    \/ InterfacesChange

----------------------------------------------------------------------------
(*                            Specifications                               *)

InitAll ==
    DialInit /\ StreamInit /\ NewInit /\ HsInit /\ UpInit /\ SwInit

InitDial == InitAll

NextDial == DialNext

SpecDial == InitDial /\ [][NextDial]_vars

\* the steps of Dial that wait for nothing outside: the plain calls, and a
\* blocked wait whose context is done
DialResume ==
    \/ OpenConnection
    \/ SetPeer
    \/ DialSimpleStage
    \/ DialSupportedHash
    \/ DialNewPeerConnection
    \/ DialNewConnection
    \/ DialSetRemotePublicKey
    \/ DialDeferred
    \/ DialCheck
    \/ (ctxDone /\ (DialAwaitOpen \/ DialGetDetachedChannel \/ noiseHandshake))

\* Dial under a scheduler that keeps running the dialing goroutine
SpecDialFair == InitDial /\ [][NextDial]_vars /\ WF_vars(DialResume)

InitStream == InitAll

NextStream == StreamNext

SpecStream == InitStream /\ [][NextStream]_vars

\* the stream with nothing but Reads acting on it: the remote writes
\* messages and may close the channel, the local side only calls Read
ReadNext ==
    \/ \E r \in Readers : ReadCall(r)
    \/ \E r \in Readers : ReadAcquire(r)
    \/ \E r \in Readers : ReadEnter(r)
    \/ \E r \in Readers : ReadLoop(r)
    \/ \E r \in Readers : ReadMsg(r)
    \/ \E r \in Readers : ReadRelock(r)
    \/ RemoteWrite
    \/ RemoteClose

NextRead == ReadNext

SpecRead == InitStream /\ [][NextRead]_vars

InitNew == InitAll

NextNew == NewNext

SpecNew == InitNew /\ [][NextNew]_vars

InitHandshake == InitAll

NextHandshake == HsNext

SpecHandshake == InitHandshake /\ [][NextHandshake]_vars

InitUpgrade == InitAll

NextUpgrade == UpNext

SpecUpgrade == InitUpgrade /\ [][NextUpgrade]_vars

\* a swarm that listens on any of the addresses
InitSwarm ==
    /\ DialInit /\ StreamInit /\ NewInit /\ HsInit /\ UpInit
    /\ \E m \in SUBSET ListenAddrs : SwInitWith(m)

NextSwarm == SwNext

SpecSwarm == InitSwarm /\ [][NextSwarm]_vars

----------------------------------------------------------------------------
(*                         Claims about Dial                               *)

\* C1: every Dial that opened a connection scope calls scope.Done() exactly
\* once on every exit path: never twice, and once Dial has returned an
\* error, or the returned connection has been closed, exactly once.
C1_DoneExactlyOnce ==
    /\ scopeDone <= 1
    /\ (/\ dialPc = "returned"
        /\ scopeOpened
        /\ (retErr # "nil" \/ conn = "closed")) => scopeDone = 1

\* C2: when the Noise handshake succeeds with a remote static key whose peer
\* id differs from the expected peer p, Dial fails and returns no connection;
\* a connection is returned only when the derived peer id equals p.
C2_PeerIDMismatchRejected ==
    dialPc = "returned" =>
        /\ (secKey \notin {"nil", p} => (retConn = "nil" /\ retErr # "nil"))
        /\ (retConn = "conn" => connKey = p)

\* the stages of dial completed so far
Completed == {events[i] : i \in 1..Len(events)}

\* C11: a Dial to an address whose certhash code has no SDP hash never
\* creates a PeerConnection or a connection; it returns no connection and a
\* non-nil error, the unsupported-hash error whenever the certhash was
\* decoded, and the scope opened for the dial has been released exactly once.
C11_UnsupportedHashRejected ==
    certhash \notin SupportedHashes \union {"nil"} =>
        /\ pc = "nil"
        /\ conn = "nil"
        /\ dialPc = "returned" =>
              /\ retConn = "nil"
              /\ retErr # "nil"
              /\ "DecodeRemoteFingerprint" \in Completed =>
                    retErr = "unsupported hash function"
              /\ scopeOpened => scopeDone = 1

C11_Witness ==
    /\ dialPc = "returned"
    /\ certhash = "0xFF"
    /\ retErr = "unsupported hash function"
    /\ retConn = "nil"
    /\ scopeDone = 1

\* C13: when Dial returns an error after the PeerConnection was created, the
\* PeerConnection is closed and so is the connection object if one was
\* constructed; Dial never returns a connection together with an error.
C13_ErrorTearsDown ==
    /\ ~(retConn # "nil" /\ retErr # "nil")
    /\ (dialPc = "returned" /\ retErr # "nil") =>
          /\ pc # "nil" => pc = "closed"
          /\ conn # "nil" => conn = "closed"
          /\ retConn = "nil"

C13_Witness ==
    /\ dialPc = "returned"
    /\ retErr = "noise"
    /\ retConn = "nil"
    /\ pc = "closed"
    /\ conn = "closed"

\* the place of a stage among the completed ones, 0 when it has not completed
Pos(stage) ==
    IF stage \in Completed
       THEN CHOOSE i \in 1..Len(events) : events[i] = stage
       ELSE 0

\* stage a completed before stage b, if b completed at all
Before(a, b) == Pos(b) > 0 => (Pos(a) > 0 /\ Pos(a) < Pos(b))

\* C18: in every Dial the local description is set before the remote one,
\* the PeerConnection is connected before the handshake channel is
\* detached, the connection object is constructed after that and before
\* Noise starts, the remote public key is set once and only after Noise
\* succeeded, and a connection is returned only after both.
C18_StageOrder ==
    /\ Before("SetLocalDescription", "SetRemoteDescription")
    /\ Before("AwaitOpen", "GetDetachedChannel")
    /\ Before("AwaitOpen", "newConnection")
    /\ Before("newConnection", "noiseHandshake")
    /\ conn # "nil" => Pos("AwaitOpen") > 0
    /\ (dialPc = "noiseHandshake" \/ secKey # "nil") =>
          (Pos("newConnection") > 0 /\ conn # "nil")
    /\ Before("noiseHandshake", "setRemotePublicKey")
    /\ Cardinality({i \in 1..Len(events) :
                       events[i] = "setRemotePublicKey"}) <= 1
    /\ connKey # "nil" =>
          (Pos("noiseHandshake") > 0 /\ Pos("setRemotePublicKey") > 0)
    /\ retConn # "nil" =>
          /\ Pos("AwaitOpen") > 0
          /\ Pos("noiseHandshake") > 0
          /\ connKey # "nil"

C18_Witness ==
    /\ dialPc = "returned"
    /\ retConn = "conn"
    /\ connKey # "nil"
    /\ Pos("setRemotePublicKey") = Len(events)

\* C12: when the dial context is cancelled while Dial is blocked waiting for
\* the PeerConnection to connect, for the handshake channel to detach or for
\* Noise, Dial eventually returns a timeout/cancellation error and no
\* connection, with the PeerConnection closed and the scope released by then.
C12_CancelAborts ==
    (cancelAt \in BlockingStages) ~>
        (/\ dialPc = "returned"
         /\ retErr \in CtxErrors
         /\ retConn = "nil"
         /\ pc = "closed"
         /\ scopeDone >= 1)

C12_Witness ==
    /\ dialPc = "returned"
    /\ cancelAt = "AwaitOpen"
    /\ retErr = "peerconnection opening timed out"
    /\ retConn = "nil"
    /\ pc = "closed"
    /\ scopeDone = 1

----------------------------------------------------------------------------
(*                      Claims about the stream                            *)

\* the Read calls that are past the reader token
PastToken == {r \in Readers : rpc[r] \notin {"idle", "token"}}

\* reader r returns from Read in this step
ReturnsIn(r) == rpc[r] # "idle" /\ rpc'[r] = "idle"

\* reader r handles an io.EOF from the channel in this step
HandlesEOF(r) ==
    rpc[r] = "relock" /\ rmsg[r].kind = "EOF" /\ rpc'[r] = "idle"

IsPrefix(a, b) == Len(a) <= Len(b) /\ a = SubSeq(b, 1, Len(a))

\* C3: at most one Read is past the reader token at any time, only that
\* Read holds the stream lock (touches next_message, processes flags), and
\* the token is free again whenever no Read is in progress.
C3_SingleReader ==
    /\ Cardinality(PastToken) <= 1
    /\ \A r \in PastToken : readerOnce = r
    /\ PastToken = {} => readerOnce = NoOne
    /\ mx # NoOne => mx \in PastToken

C3_Witness ==
    /\ delivered # <<>>
    /\ \E r1, r2 \in Readers :
          /\ r1 # r2
          /\ rpc[r1] \in {"loop", "readMsg"}
          /\ rpc[r2] = "token"

\* C4 as stated: a Read invoked while another Read is in progress does not
\* block: it can go on at once (to return an error).
C4_SecondReadDoesNotBlock ==
    \A r \in Readers :
        (rpc[r] = "token" /\ readerOnce # NoOne) => ENABLED ReadAcquire(r)

\* C4 amended: a Read invoked while another Read is in progress does not
\* fail: it waits at the reader token, returning nothing, for as long as the
\* other Read holds the token, and goes on as a normal Read afterwards.
C4_SecondReadWaits ==
    [][\A r \in Readers :
          rpc[r] = "token" =>
             IF readerOnce # NoOne
                THEN rpc'[r] = "token"
                ELSE rpc'[r] \in {"token", "lock"}]_vars

C4_Witness ==
    \E r1, r2 \in Readers :
        /\ r1 # r2
        /\ rpc[r1] = "readMsg"
        /\ readerOnce = r1
        /\ rpc[r2] = "token"

\* C5: once receive_state has left receiving it is never receiving again,
\* and once send_state has left sending it is never sending again.
C5_StatesMonotone ==
    [][/\ receiveState # "receiving" => receiveState' # "receiving"
       /\ sendState # "sending" => sendState' # "sending"]_vars

C5_Witness ==
    /\ receiveState = "reset"
    /\ sendState = "closed"
    /\ ctrlOnce
    /\ hist.afterReset

\* C6 as stated: on io.EOF from the channel Read returns EOF when
\* receive_state is data_read; otherwise receive_state becomes reset and Read
\* returns Reset, and every later Read returns Reset.
C6_EOFThenAlwaysReset ==
    [][\A r \in Readers :
          /\ HandlesEOF(r) =>
                IF receiveState = "data_read"
                   THEN /\ lastRet' = [n |-> 0, err |-> "EOF"]
                        /\ receiveState' = receiveState
                   ELSE /\ lastRet' = [n |-> 0, err |-> "Reset"]
                        /\ receiveState' = "reset"
          /\ (hist.abrupt /\ ReturnsIn(r)) =>
                lastRet' = [n |-> 0, err |-> "Reset"]]_vars

\* C6 amended: on io.EOF from the channel Read returns EOF when
\* receive_state is data_read; otherwise receive_state becomes reset and Read
\* returns Reset, and every later Read returns 0 bytes with Reset or, once
\* the stream has been closed, with the sticky close error.
C6_EOFThenResetOrCloseErr ==
    [][\A r \in Readers :
          /\ HandlesEOF(r) =>
                IF receiveState = "data_read"
                   THEN /\ lastRet' = [n |-> 0, err |-> "EOF"]
                        /\ receiveState' = receiveState
                   ELSE /\ lastRet' = [n |-> 0, err |-> "Reset"]
                        /\ receiveState' = "reset"
          /\ (hist.abrupt /\ ReturnsIn(r)) =>
                /\ lastRet'.n = 0
                /\ \/ lastRet'.err = "Reset"
                   \/ closeErr # "nil" /\ lastRet'.err = closeErr]_vars

C6_Witness ==
    /\ hist.abrupt
    /\ hist.afterReset
    /\ lastRet.err = "Reset"

C8_NoDataAfterReset ==
    [][\A r \in Readers :
          (hist.resetReturned /\ ReturnsIn(r)) =>
             /\ lastRet'.n = 0
             /\ delivered' = delivered
             /\ \/ lastRet'.err = "Reset"
                \/ closeErr # "nil" /\ lastRet'.err = closeErr]_vars

C8_Witness ==
    /\ hist.afterReset
    /\ lastRet.err = "Reset"
    /\ inbound # <<>>
    /\ Len(Head(inbound).data) > 0

\* C9: with only Reads acting on the stream, a Read that finds data in the
\* current message returns min(len(b), bytes left in it) bytes at once,
\* without taking a further message off the channel; at most one message is
\* buffered at a time; the bytes a Read returns are appended to what was
\* delivered; and the bytes delivered so far are a prefix of the payloads
\* in arrival order.
C9_ReadsDeliverInOrder ==
    [][/\ \A r \in Readers :
            (/\ rpc[r] = "loop"
             /\ nextMessage.some
             /\ Len(nextMessage.data) > 0
             /\ (rpc'[r] # rpc[r] \/ nextMessage' # nextMessage)) =>
               /\ rpc'[r] = "idle"
               /\ lastRet' = [n |-> Min(rbuf[r], Len(nextMessage.data)),
                              err |-> "nil"]
               /\ inbound' = inbound
       /\ \A r \in Readers :
            ReturnsIn(r) => Len(delivered') = Len(delivered) + lastRet'.n
       /\ ~(nextMessage'.some /\ \E r \in Readers : rmsg'[r].kind = "msg")
       /\ IsPrefix(delivered', arrived'.data)]_vars

C9_Witness ==
    /\ lastRet.n >= 1
    /\ nextMessage.some
    /\ Len(nextMessage.data) >= 1
    /\ Len(delivered) > MaxData

\* C10 as stated: CloseRead emits STOP_SENDING and moves receive_state to
\* reset exactly when receive_state is receiving; otherwise it emits nothing
\* and leaves receive_state unchanged.
C10_StopSendingIffReceiving ==
    [][CloseRead =>
          IF receiveState = "receiving"
             THEN /\ written' = Append(written, "STOP_SENDING")
                  /\ receiveState' = "reset"
             ELSE /\ written' = written
                  /\ receiveState' = receiveState]_vars

\* C10 amended: CloseRead emits STOP_SENDING and moves receive_state to
\* reset exactly when receive_state is receiving and no close error is set;
\* otherwise it emits nothing and leaves receive_state unchanged; at most one
\* STOP_SENDING is ever emitted and a second CloseRead changes nothing.
C10_StopSendingIffReceivingAndOpen ==
    [][/\ CloseRead =>
            /\ IF receiveState = "receiving" /\ closeErr = "nil"
                  THEN /\ written' = Append(written, "STOP_SENDING")
                       /\ receiveState' = "reset"
                  ELSE /\ written' = written
                       /\ receiveState' = receiveState
            /\ ctrlOnce => UNCHANGED <<receiveState, sendState, closeErr,
                                       nextMessage, written, ctrlOnce>>
       /\ Len(written') <= 1]_vars

C10_Witness ==
    /\ written = <<"STOP_SENDING">>
    /\ receiveState = "reset"
    /\ ctrlOnce

\* what a Read that returns from its first checks must leave alone
StreamState == <<receiveState, sendState, closeErr, nextMessage, inbound,
                 chanEOF, written, delivered>>

\* C21: a Read that finds the stream terminal returns 0 bytes with the
\* sticky close error if one is set, else EOF for data_read and Reset for
\* reset, whatever the length of its buffer, without taking a message off
\* the channel and without changing the stream state; a Read with an empty
\* buffer on a stream that is not terminal returns (0, no error), again
\* with the channel and the stream state untouched.
C21_TerminalOrEmptyReadIsPure ==
    [][\A r \in Readers :
          /\ (/\ rpc[r] = "lock"
              /\ rpc'[r] # "lock"
              /\ closeErr # "nil" \/ receiveState # "receiving") =>
                /\ rpc'[r] = "idle"
                /\ lastRet' = [n |-> 0,
                               err |-> IF closeErr # "nil" THEN closeErr
                                       ELSE IF receiveState = "data_read"
                                          THEN "EOF" ELSE "Reset"]
                /\ UNCHANGED StreamState
                /\ mx' = NoOne
          /\ (rpc[r] = "lock" /\ ReadEnterWith(r, 0)) =>
                /\ rpc'[r] = "idle"
                /\ lastRet'.n = 0
                /\ (closeErr = "nil" /\ receiveState = "receiving") =>
                       lastRet'.err = "nil"
                /\ UNCHANGED StreamState
                /\ mx' = NoOne]_vars

C21_Witness ==
    /\ lastRet = [n |-> 0, err |-> "nil"]
    /\ receiveState = "receiving"
    /\ closeErr = "nil"
    /\ nextMessage.some
    /\ Len(nextMessage.data) > 0
    /\ inbound # <<>>

\* C22: a Read that waits in the channel read, or for the lock after it,
\* does not hold the stream lock, so a CloseRead can run to completion at
\* once; a Read is in its loop, where it reads and writes receive_state,
\* next_message and close_err, only with the lock held; and neither waits
\* for the other for ever: a Read that waits for a free lock can take it and
\* the holder of the lock can always take its next step.
C22_ReadWaitsUnlocked ==
    /\ \A r \in Readers : rpc[r] \in {"readMsg", "relock"} => mx # r
    /\ (\E r \in Readers : rpc[r] = "readMsg") => ENABLED CloseRead
    /\ \A r \in Readers : rpc[r] = "loop" <=> mx = r
    /\ \A r \in Readers :
          (rpc[r] \in {"lock", "relock"} /\ mx = NoOne) =>
             ENABLED (ReadEnter(r) \/ ReadRelock(r))
    /\ \A r \in Readers : mx = r => ENABLED ReadLoop(r)

C22_Witness ==
    \E r \in Readers :
        /\ rpc[r] = "readMsg"
        /\ inbound = <<>>
        /\ ~chanEOF
        /\ receiveState = "reset"
        /\ written = <<"STOP_SENDING">>
        /\ ctrlOnce

\* C23: a Read never returns data bytes while receive_state is reset: once
\* CloseRead has reset the receive side, the Read that was waiting on the
\* channel returns 0 bytes.
C23_NoDataWhileReset ==
    receiveState = "reset" => lastRet.n = 0

----------------------------------------------------------------------------
(*                          Claims about New                               *)

\* C14: the timeouts of every transport New returns satisfy
\* failed >= disconnect, disconnect > keepalive, and none is negative;
\* an option that would break one of these makes New return no transport.
C14_StoredTimeoutsValid ==
    newRet = "transport" =>
        /\ peerConnectionTimeouts.Failed >= peerConnectionTimeouts.Disconnect
        /\ peerConnectionTimeouts.Disconnect > peerConnectionTimeouts.Keepalive
        /\ peerConnectionTimeouts.Disconnect >= 0
        /\ peerConnectionTimeouts.Failed >= 0
        /\ peerConnectionTimeouts.Keepalive >= 0

\* the invariants of the timeouts, a zero value switching its checks off
InvariantsWithZero(tm) ==
    /\ tm.Disconnect >= 0
    /\ tm.Failed >= 0
    /\ tm.Keepalive >= 0
    /\ (tm.Failed # 0 /\ tm.Disconnect # 0) => tm.Failed >= tm.Disconnect
    /\ (tm.Disconnect # 0 /\ tm.Keepalive # 0) =>
          tm.Disconnect > tm.Keepalive

\* C15: an option with a zero disconnect, failed or keepalive whose other
\* values keep the invariants is accepted, and the transport then stores
\* zero for that timeout.
C15_ZeroAcceptedAndStored ==
    (/\ lastIn.given
     /\ 0 \in {lastIn.tm.Disconnect, lastIn.tm.Failed, lastIn.tm.Keepalive}
     /\ InvariantsWithZero(lastIn.tm)) =>
        /\ newRet # "error"
        /\ lastIn.tm.Disconnect = 0 => peerConnectionTimeouts.Disconnect = 0
        /\ lastIn.tm.Failed = 0 => peerConnectionTimeouts.Failed = 0
        /\ lastIn.tm.Keepalive = 0 => peerConnectionTimeouts.Keepalive = 0

----------------------------------------------------------------------------
(*                   Claims about the Noise handshake                      *)

\* C16: whenever the dialer and the listener of one handshake have both
\* computed their Noise prologue, whatever their certificates and whatever
\* supported hash the certhash names, the two prologues are equal.
C16_ProloguesEqual ==
    (prologue["dialer"] # <<>> /\ prologue["listener"] # <<>>) =>
        prologue["dialer"] = prologue["listener"]

\* C17: the dialing side only ever runs SecureInbound (the Noise responder)
\* and the listening side only SecureOutbound (the Noise initiator), so
\* two sides that have both entered Noise run different roles; a side that
\* has entered Noise has Noise's own peer-id check disabled.
C17_RolesInverted ==
    /\ role["dialer"] \in {"none", "SecureInbound"}
    /\ role["listener"] \in {"none", "SecureOutbound"}
    /\ (role["dialer"] # "none" /\ role["listener"] # "none") =>
          role["dialer"] # role["listener"]
    /\ \A s \in Sides : role[s] # "none" => peerIDCheck[s] = "disabled"

C17_Witness ==
    /\ role["dialer"] = "SecureInbound"
    /\ role["listener"] = "SecureOutbound"
    /\ \A s \in Sides : hsPos[s] = "secured"

----------------------------------------------------------------------------
(*                      Claims about the upgrader                          *)

\* an upgrade started by the helper dial, towards the peer it expects, both
\* ends with a muxer that negotiates, and a scope that admits the peer
BenignDial ==
    /\ upIn.via = "dial"
    /\ upIn.p = upIn.remote
    /\ upIn.localMuxer = "negotiatingMuxer"
    /\ upIn.remoteMuxer = "negotiatingMuxer"
    /\ ~(upIn.scope = "MockScope" /\ upIn.rcmgrBlocks)

\* C19: a dial whose gater blocks nothing or only the accept stage succeeds
\* with a connection; a dial whose gater rejects the secured connection
\* fails with "gater rejected connection" and returns no connection.
C19_OutboundGating ==
    (upPc = "returned" /\ BenignDial /\ upIn.gater.present) =>
        IF upIn.gater.blockSecured
           THEN upErr = "gater rejected connection" /\ upConn = "nil"
           ELSE upErr = "nil" /\ upConn # "nil"

C19_Witness ==
    /\ upPc = "returned"
    /\ BenignDial
    /\ upIn.gater.present
    /\ upIn.gater.blockAccept
    /\ ~upIn.gater.blockSecured
    /\ upConn = "open"

PeerScopeCall == [call |-> "PeerScope"]

DoneCall == [call |-> "Done"]

\* the calls an outbound upgrade makes on its scope before Done
UpgradeScopeCalls ==
    <<PeerScopeCall, [call |-> "SetPeer", peer |-> upIn.p], PeerScopeCall>>

\* C20: the scope of a dial that gets past security and the gater sees
\* PeerScope, SetPeer(expected peer), PeerScope in that order; when the
\* upgrade succeeds Done is not called before the connection is closed and
\* exactly once when it is; when the muxer negotiation fails the upgrade
\* returns an error and Done has been called exactly once, as the last call.
C20_ScopeCallOrder ==
    (/\ upPc = "returned"
     /\ upIn.via = "dial"
     /\ upIn.scope = "MockScope"
     /\ ~upIn.rcmgrBlocks
     /\ secPeer # "nil"
     /\ ~(upIn.gater.present /\ upIn.gater.blockSecured)) =>
        IF upIn.localMuxer = "errorMuxer"
              \/ upIn.remoteMuxer = "errorMuxer"
           THEN /\ upErr # "nil"
                /\ upConn = "nil"
                /\ scopeCalls = Append(UpgradeScopeCalls, DoneCall)
           ELSE /\ upErr = "nil"
                /\ upConn = "open" => scopeCalls = UpgradeScopeCalls
                /\ upConn = "closed" =>
                      scopeCalls = Append(UpgradeScopeCalls, DoneCall)

C20_Witness ==
    /\ upPc = "returned"
    /\ upIn.via = "dial"
    /\ upIn.scope = "MockScope"
    /\ upIn.localMuxer = "negotiatingMuxer"
    /\ upIn.remoteMuxer = "errorMuxer"
    /\ upErr = "failed to negotiate stream multiplexer"
    /\ scopeCalls = Append(UpgradeScopeCalls, DoneCall)

----------------------------------------------------------------------------
(*             Claims about Swarm.InterfaceListenAddresses                 *)

\* the calls that have returned addresses
Returned == {c \in IfaceCallers : ipc[c] = "done" /\ iret[c].err = "nil"}

\* call c returns in this step
IfaceReturns(c) == ipc[c] # "done" /\ ipc'[c] = "done"

\* C24: the cached list is replaced only when its expiry time has passed,
\* and the replacement moves the expiry past the clock, so that the calls
\* that wait for the write lock meanwhile find the cache valid and return
\* the list that was stored instead of resolving again; every call that
\* leaves the write lock with addresses returns the list the cache holds;
\* and the cached list changes only when it is replaced, never when a
\* caller changes the slice it got, which shares nothing with the cache.
C24_OneRecomputePerExpiry ==
    [][/\ cacheEOL' # cacheEOL =>
            /\ now > cacheEOL
            /\ cacheEOL' = now + ifaceAddrsCacheDuration
       /\ ifaceListenAddres' # ifaceListenAddres => cacheEOL' # cacheEOL
       /\ \A c \in IfaceCallers :
            (ipc[c] = "locked" /\ IfaceReturns(c) /\ iret'[c].err = "nil") =>
               /\ iret'[c].addrs = ifaceListenAddres'
               /\ now <= cacheEOL'
               /\ now <= cacheEOL => UNCHANGED <<ifaceListenAddres, cacheEOL>>
       /\ \A c \in IfaceCallers : ~iret'[c].shared]_vars

C24_Witness ==
    /\ Returned = IfaceCallers
    /\ \A c \in IfaceCallers : iret[c].addrs \ {<<"junk">>} # {}
    /\ \E c \in IfaceCallers : <<"junk">> \in iret[c].addrs
    /\ \E c \in IfaceCallers : iret[c].addrs = ifaceListenAddres
    /\ ifaceListenAddres # {}
    /\ cacheEOL = 1 + ifaceAddrsCacheDuration

\* C25: a call whose resolution fails returns the error and no addresses,
\* leaves the cached list and its expiry time as they were and releases the
\* write lock; the lock is only ever held by a call inside its locked
\* section, so a later call is not blocked and, the cache still being
\* expired, resolves again.
C25_FailedResolveLeavesCache ==
    [][/\ \A c \in IfaceCallers :
            (IfaceReturns(c) /\ iret'[c].err # "nil") =>
               /\ iret'[c].addrs = {}
               /\ UNCHANGED <<ifaceListenAddres, cacheEOL>>
               /\ now > cacheEOL'
               /\ listenersLock' = NoOne
       /\ \A c \in IfaceCallers :
            (/\ ipc[c] = "locked"
             /\ StillInvalid(now, cacheEOL)
             /\ ResolveFails(listenAddressesNoLock(listenersM), ifaces)
             /\ ipc'[c] # ipc[c]) =>
               /\ iret'[c].err = "resolve"
               /\ iret'[c].addrs = {}
       /\ listenersLock' # NoOne => ipc'[listenersLock'] = "locked"]_vars

C25_Witness ==
    \E c, d \in IfaceCallers :
        /\ c # d
        /\ ipc[c] = "done"
        /\ iret[c].err = "resolve"
        /\ ipc[d] = "done"
        /\ iret[d].err = "nil"
        /\ iret[d].addrs # {}
        /\ cacheEOL = now + ifaceAddrsCacheDuration

====
